---------------------------- MODULE Spec2Model ----------------------------
(*************************************************************************)
(* A model of lr_vs_counting.py: the add-k smoothed bigram estimator     *)
(* get_bigram_probs, the sentence-by-sentence softmax training loop of   *)
(* __main__, and the bias-corrected exponential smoothing smoothed_loss. *)
(*                                                                       *)
(* Numbers.  Counts and probabilities of the estimator are exact         *)
(* rationals <<n, d>> (d > 0, lowest terms); d = 0 encodes the numpy     *)
(* results of a division by zero: <<0,0>> nan, <<1,0>> inf, <<-1,0>>     *)
(* -inf.  The weights, logits, predictions and losses of the training    *)
(* loop are floats kept to Digits decimal places: <<n, Scale>> stands    *)
(* for n/Scale, every product and quotient is rounded to the nearest     *)
(* multiple of 1/Scale, and exp and log are computed to that precision.  *)
(* The same <<0,0>>, <<1,0>>, <<-1,0>> stand for nan, inf and -inf.      *)
(* The floats of smoothed_loss are binary floats with a significand of   *)
(* Precision bits, every operation rounded to nearest, ties to even.     *)
(*************************************************************************)
EXTENDS Integers, Sequences, FiniteSets, TLC

VARIABLES
    pc,             \* position of the program
    sentences,      \* the corpus: a sequence of sentences of token ids
    V,              \* vocabulary size, len(word2idx)
    start_idx,      \* word2idx['START']
    end_idx,        \* word2idx['END']
    smoothing,      \* the smoothing argument of get_bigram_probs
    bigram_probs,   \* the V x V table of get_bigram_probs
    seed,           \* the state of np.random that W is drawn from
    epochs,         \* number of passes over the corpus
    W,              \* the V x V weights of the logistic model
    W_bigram,       \* np.log(bigram_probs), held fixed
    losses,         \* loss of the logistic model, one entry per step
    bigram_losses,  \* loss of the bigram model, first pass only
    epoch,          \* the pass under way
    j,              \* sentences done in this pass
    inputs,         \* one-hot inputs of the latest step
    targets,        \* one-hot targets of the latest step
    a,              \* inside softmax at line 94: a after a = a - a.max()
    predictions     \* softmax(inputs.dot(W)) of the latest step

inputVars == <<sentences, V, start_idx, end_idx, smoothing, seed, epochs>>
stepVars == <<inputs, targets, a, predictions>>
trainVars == <<W, losses, epoch, j, stepVars>>
VARIABLES
    x,              \* smoothed_loss: the raw series
    decay,          \* smoothed_loss: the decay
    y,              \* smoothed_loss: the smoothed series
    last,           \* smoothed_loss: the previous uncorrected average
    t               \* smoothed_loss: loop index

smoothVars == <<x, decay, y, last, t>>

vars == <<pc, inputVars, bigram_probs, W_bigram, bigram_losses, trainVars, smoothVars>>

-----------------------------------------------------------------------------
(* Bounds of the model *)

MaxV == 4          \* largest vocabulary size (START, END and MaxV-2 words)
MaxLen == 2        \* longest sentence
MaxSent == 2       \* most sentences in a corpus
MaxTokens == 3     \* most tokens in a corpus, all sentences together
MaxTrainTokens == 2 \* most tokens in a corpus that is trained on
MaxEpochs == 2     \* most passes over the corpus
MaxSteps == 4      \* most gradient steps of a run
MaxSeed == 1       \* seeds 0..MaxSeed of np.random
Digits == 3        \* decimal places kept by the floats of the training loop
Precision == 3     \* significand bits of the floats of smoothed_loss
MaxExp == 1        \* binades below 1/2 a decay is drawn from
MaxSeries == 2     \* longest raw loss series

-----------------------------------------------------------------------------
(* Exact rational arithmetic *)

Abs(n) == IF n < 0 THEN -n ELSE n

RECURSIVE GCD(_, _)
GCD(m, n) == IF n = 0 THEN m ELSE GCD(n, m % n)

\* n/d in lowest terms with a positive denominator (d # 0)
Rat(n, d) ==
    LET s == IF d < 0 THEN -1 ELSE 1
        g == GCD(Abs(n), Abs(d))
    IN  <<(s * n) \div g, (s * d) \div g>>

NaN == <<0, 0>>
Inf == <<1, 0>>
NegInf == <<-1, 0>>
Zero == <<0, 1>>
One == <<1, 1>>

IsFinite(p) == p[2] # 0
RAdd(p, q) == Rat(p[1] * q[2] + q[1] * p[2], p[2] * q[2])
RSub(p, q) == Rat(p[1] * q[2] - q[1] * p[2], p[2] * q[2])
RLess(p, q) == p[1] * q[2] < q[1] * p[2]
RPositive(p) == IsFinite(p) /\ p[1] > 0

\* numpy true division of finite floats: x/0 is nan, inf or -inf, never an error
RDivNp(p, q) ==
    IF q[1] = 0
    THEN IF p[1] = 0 THEN NaN ELSE IF p[1] > 0 THEN Inf ELSE NegInf
    ELSE Rat(p[1] * q[2], p[2] * q[1])

RECURSIVE RSumTo(_, _)
\* f[0] + ... + f[n]
RSumTo(f, n) == IF n < 0 THEN Zero ELSE RAdd(RSumTo(f, n - 1), f[n])

\* row.sum() of one row of a table
RowSum(row) == RSumTo(row, Cardinality(DOMAIN row) - 1)

-----------------------------------------------------------------------------
(* Floats of the training loop, kept to Digits decimal places *)

RECURSIVE Pow(_, _)
Pow(b, e) == IF e = 0 THEN 1 ELSE b * Pow(b, e - 1)

Scale == Pow(10, Digits)

Fx(n) == <<n, Scale>>
FxZero == Fx(0)
FxOne == Fx(Scale)

Sign(n) == IF n > 0 THEN 1 ELSE IF n < 0 THEN -1 ELSE 0

\* n/d rounded to the nearest integer (d > 0)
RoundDiv(n, d) == (2 * n + d) \div (2 * d)

FxNeg(p) == <<-p[1], p[2]>>

FxAdd(p, q) ==
    IF IsFinite(p) /\ IsFinite(q) THEN Fx(p[1] + q[1])
    ELSE IF p = NaN \/ q = NaN THEN NaN
    ELSE IF IsFinite(p) THEN q
    ELSE IF IsFinite(q) THEN p
    ELSE IF p = q THEN p ELSE NaN

FxSub(p, q) == FxAdd(p, FxNeg(q))

FxMul(p, q) ==
    IF IsFinite(p) /\ IsFinite(q) THEN Fx(RoundDiv(p[1] * q[1], Scale))
    ELSE IF p = NaN \/ q = NaN THEN NaN
    ELSE <<Sign(p[1]) * Sign(q[1]), 0>>

FxDiv(p, q) ==
    IF IsFinite(p) /\ IsFinite(q)
    THEN IF q[1] = 0
         THEN <<Sign(p[1]), 0>>
         ELSE Fx(RoundDiv(Sign(q[1]) * p[1] * Scale, Abs(q[1])))
    ELSE IF p = NaN \/ q = NaN THEN NaN
    ELSE IF IsFinite(q) THEN <<Sign(p[1]) * (IF q[1] < 0 THEN -1 ELSE 1), 0>>
    ELSE IF IsFinite(p) THEN FxZero
    ELSE NaN

RECURSIVE FxSumTo(_, _, _)
\* f[lo] + ... + f[hi]
FxSumTo(f, lo, hi) == IF hi < lo THEN FxZero ELSE FxAdd(FxSumTo(f, lo, hi - 1), f[hi])

\* the largest of a non-empty set of floats, nan if one of them is nan
FxMax(S) ==
    IF NaN \in S THEN NaN
    ELSE IF Inf \in S THEN Inf
    ELSE IF \A p \in S : p = NegInf THEN NegInf
    ELSE CHOOSE p \in S : IsFinite(p) /\ \A q \in S : IsFinite(q) => q[1] <= p[1]

RECURSIVE ExpSeries(_, _, _)
\* term - term*f/(k+1) + ... : the series of exp(-f/Scale) from its k-th term on
ExpSeries(f, k, term) ==
    IF term = 0
    THEN 0
    ELSE term - ExpSeries(f, k + 1, RoundDiv(term * f, Scale * (k + 1)))

\* exp(-1)
ExpMinusOne == ExpSeries(Scale, 0, Scale)

RECURSIVE ExpTimes(_, _)
\* v * exp(-n)
ExpTimes(v, n) ==
    IF n = 0 \/ v = 0 THEN v ELSE ExpTimes(RoundDiv(v * ExpMinusOne, Scale), n - 1)

\* exp(-x/Scale) for x >= 0; it underflows to 0 as np.exp does
ExpNeg(u) == ExpTimes(ExpSeries(u % Scale, 0, Scale), u \div Scale)

\* np.exp
FxExp(p) ==
    IF IsFinite(p)
    THEN IF p[1] <= 0 THEN Fx(ExpNeg(-p[1])) ELSE FxDiv(FxOne, Fx(ExpNeg(p[1])))
    ELSE IF p = NegInf THEN FxZero ELSE p

RECURSIVE FloorLog2(_)
FloorLog2(m) == IF m < 2 THEN 0 ELSE 1 + FloorLog2(m \div 2)

RECURSIVE AtanhSeries(_, _, _)
\* p + p*y2/3 + p*y2^2/5 + ... from the term of index i on
AtanhSeries(p, y2, i) ==
    IF p = 0
    THEN 0
    ELSE RoundDiv(p, 2 * i + 1) + AtanhSeries(RoundDiv(p * y2, Scale), y2, i + 1)

\* log(m/pw) for pw <= m <= 2 pw, as 2 atanh((m - pw)/(m + pw))
LnMantissa(m, pw) ==
    LET q == RoundDiv((m - pw) * Scale, m + pw)
    IN  2 * AtanhSeries(q, RoundDiv(q * q, Scale), 0)

\* log of an integer m >= 1
LnInt(m) ==
    LET k == FloorLog2(m)
    IN  k * LnMantissa(2, 1) + LnMantissa(m, Pow(2, k))

\* log of n/d, n and d integers, d >= 0; <<n, 0>> is nan, inf or -inf
LnRatio(n, d) ==
    IF d = 0 THEN (IF n > 0 THEN Inf ELSE NaN)
    ELSE IF n < 0 THEN NaN
    ELSE IF n = 0 THEN NegInf
    ELSE Fx(LnInt(n) - LnInt(d))

\* np.log of a float of the training loop, and of an entry of the bigram table
FxLog(p) == LnRatio(p[1], p[2])

RECURSIVE ISqrt(_, _)
\* Newton's iteration down to the integer square root of n from x >= it
ISqrt(n, u) ==
    LET q == (u + n \div u) \div 2
    IN  IF q >= u THEN u ELSE ISqrt(n, q)

\* np.sqrt of an integer v >= 1
FxSqrt(v) == Fx(ISqrt(v * Scale * Scale, v * Scale))

-----------------------------------------------------------------------------
(* Binary floating point of smoothed_loss: a float is the rational <<n, d>>
   whose significand has Precision bits; every operation returns the exact
   result rounded to the nearest float, ties to the even significand.  The
   exponent range is unbounded: neither overflow nor underflow is modelled. *)

RMul(p, q) == Rat(p[1] * q[1], p[2] * q[2])

\* n / d (n >= 0, d > 0) rounded to the nearest integer, ties to even
RoundHalfEven(n, d) ==
    LET lo == n \div d
        r2 == 2 * (n % d)
    IN  IF r2 < d THEN lo
        ELSE IF r2 > d THEN lo + 1
        ELSE IF lo % 2 = 0 THEN lo ELSE lo + 1

\* the spacing of the floats around p > 0: the power of two unit with
\* 2^(Precision-1) <= p / unit < 2^Precision
RECURSIVE UnitOf(_, _)
UnitOf(p, unit) ==
    IF ~RLess(p, RMul(unit, <<Pow(2, Precision), 1>>)) THEN UnitOf(p, RMul(unit, <<2, 1>>))
    ELSE IF RLess(p, RMul(unit, <<Pow(2, Precision - 1), 1>>)) THEN UnitOf(p, RMul(unit, <<1, 2>>))
    ELSE unit

Ulp(p) == IF p[1] = 0 THEN Zero ELSE UnitOf(<<Abs(p[1]), p[2]>>, One)

\* the float nearest to the rational p
Fl(p) ==
    IF p[1] = 0 THEN Zero
    ELSE LET unit == Ulp(p)
             m == RoundHalfEven(Abs(p[1]) * unit[2], p[2] * unit[1])
         IN  Rat(Sign(p[1]) * m * unit[1], unit[2])

FlAdd(p, q) == Fl(RAdd(p, q))
FlSub(p, q) == Fl(RSub(p, q))
FlMul(p, q) == Fl(RMul(p, q))
\* the divisors of smoothed_loss are never 0 for a decay below 1
FlDiv(p, q) == Fl(Rat(Sign(q[1]) * p[1] * q[2], p[2] * Abs(q[1])))

RECURSIVE RPow(_, _)
RPow(p, k) == IF k = 0 THEN One ELSE RMul(p, RPow(p, k - 1))

\* decay ** k, correctly rounded
FlPow(p, k) == Fl(RPow(p, k))

-----------------------------------------------------------------------------
(* smoothed_loss *)

\* line 125: np.zeros(len(x))
Zeros(n) == [k \in 1 .. n |-> Zero]

\* line 128: decay * last + (1 - decay) * x[t]
Average(d, prev, xt) == FlAdd(FlMul(d, prev), FlMul(FlSub(One, d), xt))

\* mutant: the average stored without bias correction
BiasCorrected_none(z, d, i) == z

\* line 129: z / (1 - decay ** (t + 1))
BiasCorrected(z, d, i) == FlDiv(z, FlSub(One, FlPow(d, i + 1)))

-----------------------------------------------------------------------------
(* get_bigram_probs.  Python positions 0..len-1 are positions 1..Len here. *)

Ids(v) == 0 .. (v - 1)

\* np.ones((V, V)) * smoothing
InitTable(v, sm) == [r \in Ids(v) |-> [c \in Ids(v) |-> sm]]

\* bigram_probs[r, c] += 1
Increment(tbl, r, c) == [tbl EXCEPT ![r][c] = RAdd(@, One)]

\* mutant: the final-word test written as an elif of the first-word test
AddPosition_elif(tbl, sentence, i, s_idx, e_idx) ==
    IF i = 1
    THEN Increment(tbl, s_idx, sentence[i])
    ELSE LET t1 == Increment(tbl, sentence[i - 1], sentence[i])
         IN  IF i = Len(sentence)
             THEN Increment(t1, sentence[i], e_idx)
             ELSE t1

\* mutant: the middle-word bigram indexed (current word, last word)
AddPosition_swapped(tbl, sentence, i, s_idx, e_idx) ==
    LET t1 == IF i = 1
              THEN Increment(tbl, s_idx, sentence[i])
              ELSE Increment(tbl, sentence[i], sentence[i - 1])
    IN  IF i = Len(sentence)
        THEN Increment(t1, sentence[i], e_idx)
        ELSE t1

\* the body of the inner loop for position i of a sentence
AddPosition(tbl, sentence, i, s_idx, e_idx) ==
    LET t1 == IF i = 1
              THEN Increment(tbl, s_idx, sentence[i])
              ELSE Increment(tbl, sentence[i - 1], sentence[i])
    IN  IF i = Len(sentence)
        THEN Increment(t1, sentence[i], e_idx)
        ELSE t1

RECURSIVE AddPositions(_, _, _, _, _)
\* for i in range(len(sentence)), positions i..Len(sentence)
AddPositions(tbl, sentence, i, s_idx, e_idx) ==
    IF i > Len(sentence)
    THEN tbl
    ELSE AddPositions(AddPosition(tbl, sentence, i, s_idx, e_idx),
                      sentence, i + 1, s_idx, e_idx)

RECURSIVE AddSentences_stream(_, _, _, _, _)
\* mutant: the corpus read as one stream, the first word of a later sentence
\* paired with the last word of the sentence before it instead of START
AddSentences_stream(tbl, sents, k, s_idx, e_idx) ==
    IF k > Len(sents)
    THEN tbl
    ELSE LET prev == IF k > 1 /\ Len(sents[k - 1]) > 0
                     THEN sents[k - 1][Len(sents[k - 1])]
                     ELSE s_idx
         IN  AddSentences_stream(AddPositions(tbl, sents[k], 1, prev, e_idx),
                                 sents, k + 1, s_idx, e_idx)

RECURSIVE AddSentences(_, _, _, _, _)
\* for sentence in sentences, sentences k..Len(sents)
AddSentences(tbl, sents, k, s_idx, e_idx) ==
    IF k > Len(sents)
    THEN tbl
    ELSE AddSentences(AddPositions(tbl, sents[k], 1, s_idx, e_idx),
                      sents, k + 1, s_idx, e_idx)

\* the table of smoothed counts as it stands before the normalization
BigramCounts(sents, v, s_idx, e_idx, sm) ==
    AddSentences(InitTable(v, sm), sents, 1, s_idx, e_idx)

\* mutant: the sum taken along axis 0, down the columns
NormalizeRows_axis0(tbl) ==
    [r \in DOMAIN tbl |->
        [c \in DOMAIN tbl[r] |->
            RDivNp(tbl[r][c], RowSum([q \in DOMAIN tbl |-> tbl[q][c]]))]]

\* bigram_probs /= bigram_probs.sum(axis=1, keepdims=True)
NormalizeRows(tbl) ==
    [r \in DOMAIN tbl |-> [c \in DOMAIN tbl[r] |-> RDivNp(tbl[r][c], RowSum(tbl[r]))]]

get_bigram_probs(sents, v, s_idx, e_idx, sm) ==
    NormalizeRows(BigramCounts(sents, v, s_idx, e_idx, sm))

-----------------------------------------------------------------------------
(* The training loop of __main__ *)

\* one draw of np.random.randn, a value in [-1, 1] fixed by the seed
Randn(sd, r, c) == Fx(((sd * (5 * r + 3 * c + 1) * 37 + 11 * sd) % (2 * Scale + 1)) - Scale)

\* W = np.random.randn(V, V) / np.sqrt(V)
InitialW(v, sd) == [r \in Ids(v) |-> [c \in Ids(v) |-> FxDiv(Randn(sd, r, c), FxSqrt(v))]]

\* lr = 1e-1
lr == Fx(Scale \div 10)

\* np.log(bigram_probs)
LogTable(tbl) == [r \in DOMAIN tbl |-> [c \in DOMAIN tbl[r] |-> FxLog(tbl[r][c])]]

\* [start_idx] + sentence + [end_idx]
PadSentence(sentence, s_idx, e_idx) == <<s_idx>> \o sentence \o <<e_idx>>

\* np.zeros((rows, v)) with m[k, tokens[k]] = 1 for every row k
OneHotRows(tokens, v) ==
    [k \in 1 .. Len(tokens) |-> [c \in Ids(v) |-> IF c = tokens[k] THEN FxOne ELSE FxZero]]

\* inputs of a padded sentence of length n: one-hot at sentence[:n-1]
InputsOf(padded, v) == OneHotRows(SubSeq(padded, 1, Len(padded) - 1), v)

\* mutant: the targets indexed like the inputs, at sentence[:n-1]
TargetsOf_unshifted(padded, v) == OneHotRows(SubSeq(padded, 1, Len(padded) - 1), v)

\* targets of a padded sentence of length n: one-hot at sentence[1:]
TargetsOf(padded, v) == OneHotRows(SubSeq(padded, 2, Len(padded)), v)

\* x.dot(w), x of shape (rows, v) and w of shape (v, v)
Dot(u, w) ==
    [k \in DOMAIN u |->
        [c \in DOMAIN w |->
            FxSumTo([r \in DOMAIN w |-> FxMul(u[k][r], w[r][c])], 0, Cardinality(DOMAIN w) - 1)]]

\* x.T.dot(d), x and d of shape (rows, v)
TransposeDot(u, d, v) ==
    [r \in Ids(v) |->
        [c \in Ids(v) |->
            FxSumTo([k \in DOMAIN u |-> FxMul(u[k][r], d[k][c])], 1, Len(u))]]

MatSub(u, q) == [k \in DOMAIN u |-> [c \in DOMAIN u[k] |-> FxSub(u[k][c], q[k][c])]]
MatScale(p, u) == [k \in DOMAIN u |-> [c \in DOMAIN u[k] |-> FxMul(p, u[k][c])]]

\* line 70: a = a - a.max(), the maximum taken over the whole matrix
SoftmaxShift(u) ==
    LET mx == FxMax(UNION {{u[k][c] : c \in DOMAIN u[k]} : k \in DOMAIN u})
    IN  [k \in DOMAIN u |-> [c \in DOMAIN u[k] |-> FxSub(u[k][c], mx)]]

\* line 71: exp_a = np.exp(a)
SoftmaxExp(u) == [k \in DOMAIN u |-> [c \in DOMAIN u[k] |-> FxExp(u[k][c])]]

\* line 72: exp_a / exp_a.sum(axis=1, keepdims=True)
SoftmaxDivide(e) ==
    [k \in DOMAIN e |->
        [c \in DOMAIN e[k] |->
            FxDiv(e[k][c], FxSumTo(e[k], 0, Cardinality(DOMAIN e[k]) - 1))]]

softmax(u) == SoftmaxDivide(SoftmaxExp(SoftmaxShift(u)))

\* -np.sum(targets * np.log(predictions)) / (n - 1), rows = n - 1
CrossEntropy(tgt, pred) ==
    LET prod == [k \in DOMAIN tgt |->
                    [c \in DOMAIN tgt[k] |-> FxMul(tgt[k][c], FxLog(pred[k][c]))]]
        rowsum == [k \in DOMAIN tgt |-> FxSumTo(prod[k], 0, Cardinality(DOMAIN prod[k]) - 1)]
    IN  FxDiv(FxNeg(FxSumTo(rowsum, 1, Len(tgt))), Fx(Len(tgt) * Scale))

\* mutant: the gradient taken as targets.T.dot(predictions - targets)
UpdatedW_targets(w, u, pred, tgt, v) ==
    MatSub(w, MatScale(lr, TransposeDot(tgt, MatSub(pred, tgt), v)))

\* line 97: W - lr * inputs.T.dot(predictions - targets)
UpdatedW(w, u, pred, tgt, v) ==
    MatSub(w, MatScale(lr, TransposeDot(u, MatSub(pred, tgt), v)))

\* mutant: the bigram loss appended in every pass
BigramLossStep_everyPass(bl, ep, tgt, u, wb) ==
    Append(bl, CrossEntropy(tgt, softmax(Dot(u, wb))))

\* lines 105-109: the loss of the frozen bigram matrix, first pass only
BigramLossStep(bl, ep, tgt, u, wb) ==
    IF ep = 0
    THEN Append(bl, CrossEntropy(tgt, softmax(Dot(u, wb))))
    ELSE bl

\* the permutations of a list that random.shuffle can leave
Shuffles(sents) ==
    {[k \in 1 .. Len(sents) |-> sents[p[k]]] : p \in Permutations(1 .. Len(sents))}

-----------------------------------------------------------------------------
(* Inputs *)

\* ordinary word ids: every id of the vocabulary but START and END
Words(v, s_idx, e_idx) == Ids(v) \ {s_idx, e_idx}

SeqsUpTo(S, n) == UNION {[1 .. m -> S] : m \in 0 .. n}

Min(m, n) == IF m < n THEN m ELSE n

RECURSIVE CorporaOf(_, _, _)
\* the corpora of exactly m sentences over the words S, of at most budget tokens
CorporaOf(S, m, budget) ==
    IF m = 0
    THEN {<<>>}
    ELSE UNION {{<<s>> \o rest : rest \in CorporaOf(S, m - 1, budget - Len(s))} :
                    s \in SeqsUpTo(S, Min(MaxLen, budget))}

Corpora(v, s_idx, e_idx) ==
    UNION {CorporaOf(Words(v, s_idx, e_idx), m, MaxTokens) : m \in 0 .. MaxSent}

TrainCorpora(v, s_idx, e_idx) ==
    UNION {CorporaOf(Words(v, s_idx, e_idx), m, MaxTrainTokens) : m \in 0 .. MaxSent}

\* where the corpus provider puts START and END: first, or last, in the vocabulary
Layouts(v) == {<<0, 1>>, <<v - 1, v - 2>>}

\* smoothing = -0.1, 0, 0.1 (the call of __main__) and 1 (the default)
SmoothingValues == {<<-1, 10>>, <<0, 1>>, <<1, 10>>, <<1, 1>>}

Unset == <<>>

\* the floats of [1, 2) and 0
Losses == {Zero} \cup {Rat(m, Pow(2, Precision - 1)) : m \in Pow(2, Precision - 1) .. (Pow(2, Precision) - 1)}

\* the non-empty series of at most MaxSeries losses
Series == UNION {[1 .. n -> Losses] : n \in 1 .. MaxSeries}

\* 0 and the floats of [2^-(MaxExp+1), 1)
Decays ==
    {Zero} \cup {Rat(m, Pow(2, Precision + g)) :
                    m \in Pow(2, Precision - 1) .. (Pow(2, Precision) - 1), g \in 0 .. MaxExp}

-----------------------------------------------------------------------------
(* The program *)

\* nothing computed yet
Fresh ==
    /\ bigram_probs = Unset
    /\ W = Unset
    /\ W_bigram = Unset
    /\ losses = Unset
    /\ bigram_losses = Unset
    /\ epoch = 0
    /\ j = 0
    /\ inputs = Unset
    /\ targets = Unset
    /\ a = Unset
    /\ predictions = Unset
    /\ x = Unset
    /\ decay = Zero
    /\ y = Unset
    /\ last = Zero
    /\ t = 0

\* lines 42-60: the corpus and vocabulary of the provider (START and END
\* first in the vocabulary), smoothing=0.1
Init ==
    /\ V = MaxV
    /\ start_idx = 0
    /\ end_idx = 1
    /\ sentences \in TrainCorpora(V, start_idx, end_idx)
    /\ smoothing = <<1, 10>>
    /\ seed \in 0 .. MaxSeed
    /\ epochs \in 1 .. MaxEpochs
    /\ epochs * Len(sentences) <= MaxSteps
    /\ pc = "call"
    /\ Fresh

\* get_bigram_probs called on any corpus with any smoothing, epochs = 1
InitEstimator ==
    /\ V \in 3 .. MaxV
    /\ \E l \in Layouts(V) : start_idx = l[1] /\ end_idx = l[2]
    /\ sentences \in Corpora(V, start_idx, end_idx)
    /\ smoothing \in SmoothingValues
    /\ seed = 0
    /\ epochs = 1
    /\ pc = "call"
    /\ Fresh

\* smoothed_loss called on any non-empty series of floats with any decay
\* in [0, 1); nothing else of the program has run
InitSmooth ==
    /\ V = MaxV
    /\ start_idx = 0
    /\ end_idx = 1
    /\ sentences = <<>>
    /\ smoothing = <<1, 10>>
    /\ seed = 0
    /\ epochs = 1
    /\ bigram_probs = Unset
    /\ W = Unset
    /\ W_bigram = Unset
    /\ losses = Unset
    /\ bigram_losses = Unset
    /\ epoch = 0
    /\ j = 0
    /\ inputs = Unset
    /\ targets = Unset
    /\ a = Unset
    /\ predictions = Unset
    /\ pc = "smooth_call"
    /\ x \in Series
    /\ decay \in Decays
    /\ y = Unset
    /\ last = Zero
    /\ t = 0

\* lines 15-31: the table of smoothed counts
CountBigrams ==
    /\ pc = "call"
    /\ bigram_probs' = BigramCounts(sentences, V, start_idx, end_idx, smoothing)
    /\ pc' = "counted"
    /\ UNCHANGED <<smoothVars, inputVars, W_bigram, bigram_losses, trainVars>>

\* lines 34-35: normalize in place and return
Normalize ==
    /\ pc = "counted"
    /\ bigram_probs' = NormalizeRows(bigram_probs)
    /\ pc' = "returned"
    /\ UNCHANGED <<smoothVars, inputVars, W_bigram, bigram_losses, trainVars>>

\* lines 63-67: the initial weights and the empty loss series
InitWeights ==
    /\ pc = "returned"
    /\ W' = InitialW(V, seed)
    /\ losses' = <<>>
    /\ pc' = "weights"
    /\ UNCHANGED <<smoothVars, inputVars, bigram_probs, W_bigram, bigram_losses, epoch, j, stepVars>>

\* lines 75-76: the frozen comparison matrix and its empty loss series
TakeLog ==
    /\ pc = "weights"
    /\ W_bigram' = LogTable(bigram_probs)
    /\ bigram_losses' = <<>>
    /\ pc' = "epoch"
    /\ UNCHANGED <<smoothVars, inputVars, bigram_probs, trainVars>>

\* lines 79-83: the next pass begins with a shuffle of the corpus
BeginEpoch ==
    /\ pc = "epoch"
    /\ epoch < epochs
    /\ sentences' \in Shuffles(sentences)
    /\ j' = 0
    /\ pc' = "sentence"
    /\ UNCHANGED <<smoothVars, V, start_idx, end_idx, smoothing, seed, epochs, bigram_probs,
                   W_bigram, bigram_losses, W, losses, epoch, stepVars>>

\* lines 84-113: one gradient step on sentence j of the pass
Step ==
    /\ pc = "sentence"
    /\ j < Len(sentences)
    /\ LET padded == PadSentence(sentences[j + 1], start_idx, end_idx)
       IN  /\ inputs' = InputsOf(padded, V)
           /\ targets' = TargetsOf(padded, V)
    /\ a' = SoftmaxShift(Dot(inputs', W))
    /\ predictions' = SoftmaxDivide(SoftmaxExp(a'))
    /\ W' = UpdatedW(W, inputs', predictions', targets', V)
    /\ losses' = Append(losses, CrossEntropy(targets', predictions'))
    /\ bigram_losses' = BigramLossStep(bigram_losses, epoch, targets', inputs', W_bigram)
    /\ j' = j + 1
    /\ UNCHANGED <<smoothVars, pc, inputVars, bigram_probs, W_bigram, epoch>>

\* the pass is over
EndEpoch ==
    /\ pc = "sentence"
    /\ j = Len(sentences)
    /\ epoch' = epoch + 1
    /\ pc' = "epoch"
    /\ UNCHANGED <<smoothVars, inputVars, bigram_probs, W_bigram, bigram_losses, W, losses, j, stepVars>>

\* line 115: training is over
Finish ==
    /\ pc = "epoch"
    /\ epoch = epochs
    /\ pc' = "trained"
    /\ UNCHANGED <<smoothVars, inputVars, bigram_probs, W_bigram, bigram_losses, trainVars>>

\* lines 125-126: y = np.zeros(len(x)), last = 0
SmoothEnter ==
    /\ pc = "smooth_call"
    /\ y' = Zeros(Len(x))
    /\ last' = Zero
    /\ t' = 0
    /\ pc' = "smooth_loop"
    /\ UNCHANGED <<x, decay, inputVars, bigram_probs, W_bigram, bigram_losses, trainVars>>

\* lines 127-130: one iteration of the loop
SmoothIterate ==
    /\ pc = "smooth_loop"
    /\ t < Len(x)
    /\ last' = Average(decay, last, x[t + 1])
    /\ y' = [y EXCEPT ![t + 1] = BiasCorrected(last', decay, t)]
    /\ t' = t + 1
    /\ UNCHANGED <<pc, x, decay, inputVars, bigram_probs, W_bigram, bigram_losses, trainVars>>

\* line 131: return y
SmoothReturn ==
    /\ pc = "smooth_loop"
    /\ t = Len(x)
    /\ pc' = "smooth_done"
    /\ UNCHANGED <<smoothVars, inputVars, bigram_probs, W_bigram, bigram_losses, trainVars>>

Next ==
    \/ CountBigrams
    \/ Normalize
    \/ InitWeights
    \/ TakeLog
    \/ BeginEpoch
    \/ Step
    \/ EndEpoch
    \/ Finish

Spec == Init /\ [][Next]_vars

\* lines 59-76 alone
NextEstimator == CountBigrams \/ Normalize \/ InitWeights \/ TakeLog

SpecEstimator == InitEstimator /\ [][NextEstimator]_vars

NextSmooth == SmoothEnter \/ SmoothIterate \/ SmoothReturn

SpecSmooth == InitSmooth /\ [][NextSmooth]_vars

-----------------------------------------------------------------------------
(* Properties of the estimator *)

\* sentence k between its boundary markers
Padded(k) == <<start_idx>> \o sentences[k] \o <<end_idx>>

\* how often the bigram (r, c) occurs in the non-empty sentences of the
\* corpus, each read between START and END
Occurrences(r, c) ==
    Cardinality({q \in {<<k, i>> : k \in 1 .. Len(sentences), i \in 1 .. (MaxLen + 2)} :
                    /\ Len(sentences[q[1]]) > 0
                    /\ q[2] <= Len(sentences[q[1]]) + 1
                    /\ Padded(q[1])[q[2]] = r
                    /\ Padded(q[1])[q[2] + 1] = c})

SmoothedCount(r, c) == RAdd(smoothing, <<Occurrences(r, c), 1>>)

RowTotal(r) == RSumTo([c \in Ids(V) |-> SmoothedCount(r, c)], V - 1)

NonEmpty == Cardinality({k \in 1 .. Len(sentences) : Len(sentences[k]) > 0})

\* the increments made in row r and in column c of the table of counts
RowIncrements(r) == RSumTo([c \in Ids(V) |-> RSub(bigram_probs[r][c], smoothing)], V - 1)
ColIncrements(c) == RSumTo([r \in Ids(V) |-> RSub(bigram_probs[r][c], smoothing)], V - 1)

\* C1: for smoothing > 0 every entry of the returned table is its smoothed
\* count divided by the total smoothed count of its row, that total is
\* positive, every entry is strictly positive and every row sums to 1.
C1_RowsAreDistributions ==
    (pc = "returned" /\ RPositive(smoothing)) =>
        \A r \in Ids(V) :
            /\ RPositive(RowTotal(r))
            /\ RowSum(bigram_probs[r]) = One
            /\ \A c \in Ids(V) :
                /\ bigram_probs[r][c] = RDivNp(SmoothedCount(r, c), RowTotal(r))
                /\ RPositive(bigram_probs[r][c])

C1_Witness ==
    /\ pc = "returned"
    /\ RPositive(smoothing)
    /\ Len(sentences) = 2
    /\ \E k \in 1 .. 2 : Len(sentences[k]) = 2
    /\ \E r \in Ids(V) : \E c, d \in Ids(V) : bigram_probs[r][c] # bigram_probs[r][d]

\* C2 as stated: every sentence, those of length 0 included, adds one
\* start-transition and one end-transition, so that after S sentences the
\* increments in row start_idx and in column end_idx both total S.
C2_EverySentenceCounted ==
    pc = "counted" =>
        /\ RowIncrements(start_idx) = <<Len(sentences), 1>>
        /\ ColIncrements(end_idx) = <<Len(sentences), 1>>

\* C2 amended: every sentence of length >= 1 adds exactly one
\* start-transition and one end-transition and a sentence of length 0 adds
\* none: the increments in row start_idx and in column end_idx both total
\* the number of non-empty sentences.
C2_NonEmptySentencesCounted ==
    pc = "counted" =>
        /\ RowIncrements(start_idx) = <<NonEmpty, 1>>
        /\ ColIncrements(end_idx) = <<NonEmpty, 1>>

C2_Witness ==
    /\ pc = "counted"
    /\ \E k \in 1 .. Len(sentences) : Len(sentences[k]) = 0
    /\ \E k \in 1 .. Len(sentences) : Len(sentences[k]) = 1
    /\ RowIncrements(start_idx) = One

Permute(sents, p) == [k \in 1 .. Len(sents) |-> sents[p[k]]]

\* C3: iterating the sentences in any other order gives the same count in
\* every cell and the same table.
C3_OrderIndependent ==
    \A p \in Permutations(1 .. Len(sentences)) :
        /\ pc = "counted" =>
             bigram_probs = BigramCounts(Permute(sentences, p), V, start_idx, end_idx, smoothing)
        /\ pc = "returned" =>
             bigram_probs = get_bigram_probs(Permute(sentences, p), V, start_idx, end_idx, smoothing)

C3_Witness ==
    /\ pc = "returned"
    /\ Len(sentences) = 2
    /\ Len(sentences[1]) > 0
    /\ Len(sentences[2]) > 0
    /\ sentences[1][1] # sentences[2][Len(sentences[2])]
    /\ sentences[1] # sentences[2]

\* C5: a smoothing <= 0 is rejected before the table is built, so that no
\* table of counts or of probabilities ever exists for it.
C5_NonPositiveSmoothingRejected ==
    ~RPositive(smoothing) => pc = "call" /\ bigram_probs = Unset

\* the corpus [[2, 3]] over {START=0, END=1, the=2, cat=3}, smoothing 1
Scenario ==
    /\ V = 4
    /\ start_idx = 0
    /\ end_idx = 1
    /\ sentences = << <<2, 3>> >>
    /\ smoothing = One

\* C6 as stated: in the row of 'the' the transition to 'cat' is the
\* highest and the transition to END is 2.0 before normalization against
\* 1.0 for untouched cells.
C6_TheRowAsStated ==
    Scenario =>
        /\ pc \in {"counted", "returned"} =>
             \A c \in Ids(V) \ {3} : RLess(bigram_probs[2][c], bigram_probs[2][3])
        /\ pc = "counted" =>
             /\ bigram_probs[2][1] = <<2, 1>>
             /\ bigram_probs[2][0] = One

\* C6 amended: in the row of 'the' the transition to 'cat' is the highest
\* (2.0 before normalization) and every other cell of that row, the
\* transition to END included, is at the untouched 1.0; the transition to
\* END that the last word raises to 2.0 is in the row of 'cat' (index 3).
C6_TheRow ==
    Scenario =>
        /\ pc \in {"counted", "returned"} =>
             \A c \in Ids(V) \ {3} : RLess(bigram_probs[2][c], bigram_probs[2][3])
        /\ pc = "counted" =>
             /\ bigram_probs[2][3] = <<2, 1>>
             /\ \A c \in Ids(V) \ {3} : bigram_probs[2][c] = One
             /\ bigram_probs[3][1] = <<2, 1>>
             /\ \A c \in Ids(V) \ {1} : bigram_probs[3][c] = One
        /\ pc = "returned" =>
             /\ bigram_probs[2][3] = <<2, 5>>
             /\ bigram_probs[2][1] = <<1, 5>>
             /\ bigram_probs[3][1] = <<2, 5>>

C6_Witness == Scenario /\ pc = "returned"

-----------------------------------------------------------------------------
(* Properties of the training loop *)

RowMax(row) == FxMax({row[c] : c \in DOMAIN row})

Tokens(sentence) == {sentence[i] : i \in 1 .. Len(sentence)}

IsOneHotAt(row, tok) ==
    /\ DOMAIN row = Ids(V)
    /\ \A c \in Ids(V) : row[c] = IF c = tok THEN FxOne ELSE FxZero

\* C4: the step on a sentence of length n pads it to START, sentence, END
\* and makes exactly n+1 examples, row k of the inputs one-hot at padded[k]
\* and row k of the targets one-hot at padded[k+1] (rows and positions
\* counted from 1 here).
C4_OneHotExamples ==
    (pc \in {"sentence", "epoch", "trained"} /\ j > 0) =>
        LET n == Len(sentences[j])
        IN  /\ Len(inputs) = n + 1
            /\ Len(targets) = n + 1
            /\ \A k \in 1 .. (n + 1) :
                /\ IsOneHotAt(inputs[k], Padded(j)[k])
                /\ IsOneHotAt(targets[k], Padded(j)[k + 1])

C4_Witness ==
    /\ pc = "sentence"
    /\ j = 2
    /\ Len(sentences[1]) = 0
    /\ Len(sentences[2]) = 2
    /\ Len(inputs) = 3
    /\ targets[3][end_idx] = FxOne

\* C8: softmax subtracts from every row of the logits that row's own
\* maximum, so that the largest shifted value of every row is 0, and then
\* divides the exponentials by their row sum.
C8_RowMaxSubtracted ==
    (pc = "sentence" /\ j > 0) =>
        \A k \in DOMAIN a :
            /\ RowMax(a[k]) = FxZero
            /\ \A c \in Ids(V) :
                 predictions[k][c] =
                    FxDiv(FxExp(a[k][c]), FxSumTo([d \in Ids(V) |-> FxExp(a[k][d])], 0, V - 1))

IsAppend(old, new) ==
    /\ Len(new) = Len(old) + 1
    /\ SubSeq(new, 1, Len(old)) = old

\* C9: both loss series only grow by appending; every step appends one
\* entry to the trained-model series and appends one to the bigram series
\* exactly when it is a step of the first pass; after E passes over S
\* sentences they hold E*S and S entries.
C9_LossSeries ==
    /\ [](pc \in {"sentence", "epoch", "trained"} =>
            /\ Len(losses) = epoch * Len(sentences) + (IF pc = "sentence" THEN j ELSE 0)
            /\ Len(bigram_losses) = IF epoch > 0 THEN Len(sentences)
                                    ELSE IF pc = "sentence" THEN j ELSE 0
            /\ pc = "trained" =>
                 /\ Len(losses) = epochs * Len(sentences)
                 /\ Len(bigram_losses) = Len(sentences))
    /\ [][/\ losses' = losses \/ IsAppend(losses, losses')
          /\ bigram_losses' = bigram_losses \/ IsAppend(bigram_losses, bigram_losses')
          /\ (pc = "sentence" /\ j' = j + 1) =>
                /\ Len(losses') = Len(losses) + 1
                /\ Len(bigram_losses') = Len(bigram_losses) + (IF epoch = 0 THEN 1 ELSE 0)
          /\ ~(pc = "sentence" /\ j' = j + 1) =>
                /\ Len(losses') = Len(losses)
                /\ Len(bigram_losses') = Len(bigram_losses)]_vars

C9_Witness ==
    /\ pc = "trained"
    /\ epochs = 2
    /\ Len(sentences) = 2
    /\ Len(losses) = 4
    /\ Len(bigram_losses) = 2

-----------------------------------------------------------------------------
(* Properties of smoothed_loss *)

Half == <<1, 2>>

\* C7 as stated: smoothed_loss starts with last = 0, returns a series as
\* long as x, and its first element equals the first raw element exactly.
C7_FirstElementExact ==
    /\ pc = "smooth_loop" /\ t = 0 => last = Zero
    /\ pc \in {"smooth_loop", "smooth_done"} => Len(y) = Len(x)
    /\ pc \in {"smooth_loop", "smooth_done"} /\ t >= 1 => y[1] = x[1]

\* C7: smoothed_loss starts with last = 0 and returns a series as long as
\* x; its first element is x[0] up to the rounding of the product and the
\* quotient, at most one unit in the last place of x[0] away from it, and
\* equal to x[0] when decay is 0 or 1/2.
C7_FirstElementWithinUlp ==
    /\ pc = "smooth_loop" /\ t = 0 => last = Zero
    /\ pc \in {"smooth_loop", "smooth_done"} => Len(y) = Len(x)
    /\ pc \in {"smooth_loop", "smooth_done"} /\ t >= 1 =>
        /\ ~RLess(Ulp(x[1]), RSub(y[1], x[1]))
        /\ ~RLess(Ulp(x[1]), RSub(x[1], y[1]))
        /\ decay \in {Zero, Half} => y[1] = x[1]

C7_Witness ==
    /\ pc = "smooth_done"
    /\ Len(x) = 2
    /\ Len(y) = 2
    /\ decay \notin {Zero, Half}
    /\ RSub(y[1], x[1]) \in {Ulp(x[1]), RSub(Zero, Ulp(x[1]))}
    /\ x[1] # Zero

=============================================================================
